---- MODULE Spec2Model ----
(***************************************************************************)
(* A model of the CollaborationManager of src/Plasmo/real-time-            *)
(* collaboration.ts: the edit log with its operational transform, the      *)
(* WebSocket connection life cycle with reconnect and heartbeat, the room  *)
(* session (rooms, presence, chat messages), and the event system.         *)
(*                                                                         *)
(* Strings are sequences of one-character strings, so that .length is Len  *)
(* and positions index them.  An optional field (length?: number) is the   *)
(* empty sequence when absent and <<n>> when present.                      *)
(***************************************************************************)
EXTENDS Integers, Sequences, FiniteSets, TLC

VARIABLES
    \* ---- CollaborationManager fields ----
    websocket,          \* 0 (null) or the index in sockets of this.websocket
    currentUser,        \* <<>> (null) or <<userId>>
    userFields,         \* the cursor and selection fields of this.currentUser
    currentRoom,        \* <<>> (null) or <<room>>
    users,              \* the set of user ids that are keys of this.users
    messages,           \* this.messages
    edits,              \* this.edits, the edit log
    webrtcConnections,  \* this.webrtcConnections: a set of entries [peerId, channel, status]
    eventListeners,     \* event name -> sequence of subscribed callbacks
    reconnectAttempts,  \* this.reconnectAttempts
    heartbeatInterval,  \* 0 (null) or the handle held in this.heartbeatInterval
    \* ---- the runtime the manager lives in ----
    sockets,            \* every WebSocket created by connect(): its readyState
    timers,             \* pending setTimeout callbacks of reconnect(): their delays
    intervals,          \* handles of the setInterval timers that are still active
    now,                \* Date.now()
    \* ---- what the last operation did (history, read by the properties) ----
    last,               \* the operation, its input, what it sent and emitted
    wire,               \* indices of log entries the server has seen
    tainted,            \* TRUE once a malformed edit was handed to the manager
    closeRun,           \* failed connection attempts since the last open event
    closeSeen,          \* what the consumer observed at closes, by outcome
    retryRun,           \* retries scheduled since the last open or clean close
    delivered,          \* indices of this.messages the server has seen
    joining,            \* the room id given to joinRoom, and whether it was answered
    \* ---- the two-replica harness of the transform function ----
    otPc, otText, otA, otB, otR1, otR2,
    \* ---- the other parts of the program, each with its own specification ----
    ids,                \* the ids generateId() has returned, in creation order
    channels,           \* the RTCDataChannels made so far: [peerId, readyState, created]
    answered,           \* peer ids whose offer was answered (ondatachannel installed)
    \* ---- StorageManager (storage-manager.ts) ----
    store,              \* chrome.storage.sync 'settings': <<>> or <<stored object>>
    cache,              \* this.cache 'settings': <<>> or <<settings>>
    calls,              \* the updateSettings calls: position and locals of each
    changed,            \* storage.onChanged events not yet delivered to the listener
    setQueue,           \* calls whose storage.sync.set has not resolved, in order
    others,             \* number of writes other contexts have made
    \* ---- telemetry of the enterprise manager ----
    telemetryQueue,     \* this.telemetryQueue: the ids of the queued events
    inFlight,           \* the batches whose fetch is pending
    acked,              \* the batches the server answered with response.ok
    accepted            \* number of events trackEvent has queued

mgrVars == <<websocket, currentUser, userFields, currentRoom, users, messages, edits,
             webrtcConnections, eventListeners, reconnectAttempts,
             heartbeatInterval, sockets, timers, intervals, now,
             last, wire, tainted, closeRun, closeSeen,
             retryRun, delivered, joining>>
otVars == <<otPc, otText, otA, otB, otR1, otR2>>
peerVars == <<channels, answered>>
storeVars == <<store, cache, calls, changed, setQueue, others>>
telVars == <<telemetryQueue, inFlight, acked, accepted>>
auxVars == <<ids, peerVars, storeVars, telVars>>
vars == <<mgrVars, otVars, auxVars>>

-----------------------------------------------------------------------------
(* Bounds of the model *)

MaxTextLen == 4
MaxContentLen == 2
MaxSpan == 2
MaxStamp == 2

-----------------------------------------------------------------------------
(* Helpers on sequences *)

Min(a, b) == IF a < b THEN a ELSE b
Max(a, b) == IF a > b THEN a ELSE b

\* s.slice(0, n) and s.slice(n) of JavaScript, for n >= 0
Take(s, n) == SubSeq(s, 1, Min(n, Len(s)))
Drop(s, n) == SubSeq(s, Min(n, Len(s)) + 1, Len(s))

IsPrefix(s, t) == Len(s) <= Len(t) /\ SubSeq(t, 1, Len(s)) = s

Letters == <<"A", "B", "C", "D", "E", "F">>
Glyphs == <<"X", "Y", "Z", "W">>
TextOfLen(n) == [i \in 1..n |-> Letters[((i - 1) % Len(Letters)) + 1]]
ContentOfLen(n) == [i \in 1..n |-> Glyphs[((i - 1) % Len(Glyphs)) + 1]]

-----------------------------------------------------------------------------
(* CollaborationEdit and the operational transform *)

\* againstEdit.length || 0
LengthOrZero(e) == IF e.length = <<>> THEN 0 ELSE e.length[1]

transformEdit(edit, againstEdit) ==
    IF edit.timestamp <= againstEdit.timestamp
    THEN edit
    ELSE CASE againstEdit.type = "insert" ->
                IF edit.position >= againstEdit.position
                THEN [edit EXCEPT !.position = @ + Len(againstEdit.content)]
                ELSE edit
          [] againstEdit.type = "delete" ->
                IF edit.position > againstEdit.position
                THEN [edit EXCEPT !.position = @ - LengthOrZero(againstEdit)]
                ELSE edit
          [] againstEdit.type = "replace" ->
                IF edit.position > againstEdit.position
                THEN [edit EXCEPT !.position =
                          @ + (Len(againstEdit.content) - LengthOrZero(againstEdit))]
                ELSE edit
          [] OTHER -> edit

\* The effect of one edit on the shared text (the fold step of currentText()).
applyEdit(text, e) ==
    LET p == Max(e.position, 0) IN
    CASE e.type = "insert" -> Take(text, p) \o e.content \o Drop(text, p)
      [] e.type = "delete" -> Take(text, p) \o Drop(text, p + LengthOrZero(e))
      [] e.type = "replace" ->
            Take(text, p) \o e.content \o Drop(text, p + LengthOrZero(e))
      [] OTHER -> text

\* malformed: negative position, or a delete reaching past the end of the text
Malformed(text, e) ==
    \/ e.position < 0
    \/ e.type = "delete" /\ e.position + LengthOrZero(e) > Len(text)

-----------------------------------------------------------------------------
(* The edits a client can create on a text it sees *)

InsertsOn(text) ==
    { [type |-> "insert", position |-> p, content |-> ContentOfLen(n), length |-> <<>>] :
        p \in 0..Len(text), n \in 1..MaxContentLen }
DeletesOn(text) ==
    { [type |-> "delete", position |-> pl[1], content |-> <<>>, length |-> <<pl[2]>>] :
        pl \in { q \in (0..Len(text)) \X (1..MaxSpan) : q[1] + q[2] <= Len(text) } }
ReplacesOn(text) ==
    { [type |-> "replace", position |-> pl[1], content |-> ContentOfLen(n),
       length |-> <<pl[2]>>] :
        pl \in { q \in (0..Len(text)) \X (1..MaxSpan) : q[1] + q[2] <= Len(text) },
        n \in 1..MaxContentLen }
DraftsOn(text) == InsertsOn(text) \cup DeletesOn(text) \cup ReplacesOn(text)

\* sendEdit's fullEdit: the draft plus id, userId and timestamp
FullEdit(draft, id, userId, timestamp) ==
    [id |-> id, type |-> draft.type, position |-> draft.position,
     content |-> draft.content, length |-> draft.length,
     userId |-> userId, timestamp |-> timestamp]

-----------------------------------------------------------------------------
(* The message bus and the history record *)

\* the events the manager emits in this model
Events == {"connected", "disconnected", "room_joined", "user_joined",
           "user_left", "message", "edit", "error"}

\* what the last operation was, its input, the frames it transmitted, the
\* events it emitted, and what else the properties read about it
Did(op, arg, sent, emitted, info) ==
    [op |-> op, arg |-> arg, sent |-> sent, emitted |-> emitted, info |-> info]

-----------------------------------------------------------------------------
(* Two replicas applying two concurrent edits in opposite orders.           *)
(* Replica 1 applies A and then transformEdit(B, A); replica 2 applies B    *)
(* and then transformEdit(A, B).  Both edits were created on otText.        *)

\* a user object without the optional cursor and selection
NoFields == [cursor |-> <<>>, selection |-> <<>>]

MgrIdle ==
    /\ websocket = 0 /\ currentUser = <<>> /\ currentRoom = <<>>
    /\ users = {} /\ messages = <<>> /\ edits = <<>>
    /\ webrtcConnections = {} /\ eventListeners = [e \in Events |-> <<>>]
    /\ reconnectAttempts = 0 /\ heartbeatInterval = 0
    /\ sockets = <<>> /\ timers = <<>> /\ intervals = {}
    /\ now = 1
    /\ last = Did("new", <<>>, <<>>, <<>>, <<>>)
    /\ wire = {} /\ tainted = FALSE /\ closeRun = 0 /\ closeSeen = {}
    /\ retryRun = 0 /\ delivered = {}
    /\ userFields = NoFields /\ joining = <<>>

OTIdle ==
    /\ otPc = "off" /\ otText = <<>> /\ otA = <<>> /\ otB = <<>>
    /\ otR1 = <<>> /\ otR2 = <<>>

\* the settings object: two of its fields
Themes == {"light", "dark"}
Languages == {"en", "fr"}
Settings == [theme : Themes, language : Languages]

\* the defaults of getSettings()
DefaultSettings == [theme |-> "light", language |-> "en"]

\* a Partial<UserSettings>: the fields it carries
Updates == { [theme |-> <<t>>, language |-> <<>>] : t \in Themes }
             \cup { [theme |-> <<>>, language |-> <<l>>] : l \in Languages }

MaxCalls == 2

NoCall == [pc |-> "idle", updates |-> <<>>, result |-> <<>>, newSettings |-> <<>>]

StoreIdle ==
    /\ store = <<>> /\ cache = <<>>
    /\ calls = [c \in 1..MaxCalls |-> NoCall]
    /\ changed = 0 /\ setQueue = <<>> /\ others = 0

AuxIdle ==
    /\ ids = <<>>
    /\ channels = <<>> /\ answered = {}
    /\ StoreIdle
    /\ telemetryQueue = <<>> /\ inFlight = {} /\ acked = {} /\ accepted = 0

OTInit ==
    /\ MgrIdle /\ AuxIdle
    /\ otPc = "created"
    /\ otText \in { TextOfLen(n) : n \in 0..MaxTextLen }
    /\ otA \in { FullEdit(d, "a", "u1", t) : d \in DraftsOn(otText), t \in 1..MaxStamp }
    /\ otB \in { FullEdit(d, "b", "u2", t) : d \in DraftsOn(otText), t \in 1..MaxStamp }
    /\ otR1 = otText
    /\ otR2 = otText

\* each replica applies the edit of its own user
OTApplyOwn ==
    /\ otPc = "created"
    /\ otR1' = applyEdit(otR1, otA)
    /\ otR2' = applyEdit(otR2, otB)
    /\ otPc' = "own"
    /\ UNCHANGED <<otText, otA, otB, mgrVars, auxVars>>

\* each replica receives the other edit, transforms it against its own and applies it
OTApplyRemote ==
    /\ otPc = "own"
    /\ otR1' = applyEdit(otR1, transformEdit(otB, otA))
    /\ otR2' = applyEdit(otR2, transformEdit(otA, otB))
    /\ otPc' = "done"
    /\ UNCHANGED <<otText, otA, otB, mgrVars, auxVars>>

OTNext == OTApplyOwn \/ OTApplyRemote

SpecOT == OTInit /\ [][OTNext]_vars

-----------------------------------------------------------------------------
(* Properties of the transform function, checked under SpecOT *)

\* C1: convergence (TP1): whatever the starting text and the two concurrent
\* edits, both replicas end with the same text.
C1_Convergence == otPc = "done" => otR1 = otR2

ABCD == <<"A", "B", "C", "D">>
AXBD == <<"A", "X", "B", "D">>
IsInsertXAt1(e) ==
    /\ e.type = "insert" /\ e.position = 1 /\ e.content = <<"X">> /\ e.userId = "u1"
IsDeleteAt2(e) ==
    /\ e.type = "delete" /\ e.position = 2 /\ e.length = <<1>> /\ e.userId = "u2"

\* C2: from "ABCD", A = insert "X" at 1 by u1 and B = delete 1 at 2 by u2 give
\* "AXBD" on both replicas, for every order of the two timestamps.
C2_Example ==
    (otPc = "done" /\ otText = ABCD /\ IsInsertXAt1(otA) /\ IsDeleteAt2(otB))
        => (otR1 = AXBD /\ otR2 = AXBD)

\* C7: insert rule: against an insert O applied earlier, E moves right by the
\* length of O's content when E.position >= O.position and is unchanged otherwise;
\* no other field changes.  (O = otA is applied first on replica 1, E = otB.)
C7_InsertRule ==
    (otPc # "off" /\ otA.type = "insert") =>
        transformEdit(otB, otA) =
            [otB EXCEPT !.position =
                IF otB.position >= otA.position
                THEN otB.position + Len(otA.content) ELSE otB.position]

\* C8: delete rule: against a delete O at p of length L applied earlier, E moves
\* to max(p, E.position - L) when E.position > p and is unchanged otherwise.
C8_DeleteRule ==
    (otPc # "off" /\ otA.type = "delete") =>
        transformEdit(otB, otA).position =
            IF otB.position > otA.position
            THEN Max(otA.position, otB.position - LengthOrZero(otA))
            ELSE otB.position

-----------------------------------------------------------------------------
(* The WebSocket connection: connect, reconnect, heartbeat, disconnect *)

maxReconnectAttempts == 5

\* sockets ever created, sockets alive at once, and the sockets before which
\* the consumer calls connect()
MaxSockets == 7
MaxLive == 2
MaxConnects == 1

Live == { i \in 1..Len(sockets) : sockets[i].readyState # "CLOSED" }

\* this.websocket?.readyState === WebSocket.OPEN
SocketIsOpen == websocket # 0 /\ sockets[websocket].readyState = "OPEN"

\* send(data) without the check of readyState
send_Always(data) == <<data>>

\* send(data): the frames that reach the wire
send(data) == IF SocketIsOpen THEN <<data>> ELSE <<>>

\* emit(event, data): the call the listeners of the event receive
emit(event, data) == [event |-> event, data |-> data]

\* what the consumer can read off the manager: the events of the last
\* operation and the public getters
Observed ==
    [emitted |-> last.emitted, getCurrentUser |-> currentUser,
     getCurrentRoom |-> currentRoom, getUsers |-> users,
     getMessages |-> messages, getEdits |-> edits]

\* new WebSocket(url) and the assignment of this.websocket
NewSocket ==
    /\ sockets' = Append(sockets, [readyState |-> "CONNECTING", established |-> FALSE])
    /\ websocket' = Len(sockets) + 1

\* connect(serverUrl, authToken) called by the consumer; the constructor throws
\* on a malformed URL and connect returns false
connectCall ==
    /\ \E urlOk \in BOOLEAN :
          /\ IF urlOk THEN NewSocket ELSE UNCHANGED <<sockets, websocket>>
          /\ last' = Did("connect", <<urlOk>>, <<>>, <<>>, [returned |-> urlOk])
    /\ UNCHANGED <<currentUser, currentRoom, users, messages, edits,
                   webrtcConnections, eventListeners, reconnectAttempts,
                   heartbeatInterval, timers, intervals, now, wire, tainted,
                   closeRun, closeSeen, retryRun,
                   delivered, userFields, joining, otVars, auxVars>>

\* the one connect() of the consumer on a manager that has no socket yet
connect ==
    /\ Len(sockets) < MaxConnects
    /\ Cardinality(Live) < MaxLive
    /\ connectCall

startHeartbeat(handle) ==
    /\ heartbeatInterval' = handle
    /\ intervals' = intervals \cup {handle}

stopHeartbeat ==
    IF heartbeatInterval # 0
    THEN /\ intervals' = intervals \ {heartbeatInterval}
         /\ heartbeatInterval' = 0
    ELSE UNCHANGED <<intervals, heartbeatInterval>>

\* websocket.onopen keeping the count of reconnect attempts
onopen_NoReset(i) ==
    /\ i \in 1..Len(sockets)
    /\ sockets[i].readyState = "CONNECTING"
    /\ sockets' = [sockets EXCEPT ![i] = [readyState |-> "OPEN", established |-> TRUE]]
    /\ startHeartbeat(i)
    /\ last' = Did("open", <<i>>, <<>>, <<emit("connected", <<>>)>>, <<>>)
    /\ closeRun' = 0
    /\ retryRun' = 0
    /\ UNCHANGED <<websocket, currentUser, currentRoom, users, messages, edits,
                   webrtcConnections, eventListeners, timers, now, wire,
                   tainted, closeSeen, delivered, userFields, joining, otVars,
                   auxVars, reconnectAttempts>>

\* websocket.onopen of socket i; setInterval returns a fresh handle, here i
onopen(i) ==
    /\ i \in 1..Len(sockets)
    /\ sockets[i].readyState = "CONNECTING"
    /\ sockets' = [sockets EXCEPT ![i] = [readyState |-> "OPEN", established |-> TRUE]]
    /\ reconnectAttempts' = 0
    /\ startHeartbeat(i)
    /\ last' = Did("open", <<i>>, <<>>, <<emit("connected", <<>>)>>, <<>>)
    /\ closeRun' = 0
    /\ retryRun' = 0
    /\ UNCHANGED <<websocket, currentUser, currentRoom, users, messages, edits,
                   webrtcConnections, eventListeners, timers, now, wire,
                   tainted, closeSeen, delivered, userFields, joining, otVars, auxVars>>

\* the delay reconnect() computes after incrementing the counter to attempts
reconnectDelay(attempts) ==
    LET d == 1000 * (2 ^ attempts) IN IF d < 30000 THEN d ELSE 30000

\* the condition under which onclose calls reconnect()
retryAllowed_Inclusive(wasClean) ==
    ~wasClean /\ reconnectAttempts <= maxReconnectAttempts

retryAllowed(wasClean) ==
    ~wasClean /\ reconnectAttempts < maxReconnectAttempts

\* websocket.onclose of socket i.  A socket whose handshake never completed
\* cannot close cleanly.
onclose(i, wasClean) ==
    /\ i \in 1..Len(sockets)
    /\ sockets[i].readyState # "CLOSED"
    /\ wasClean => sockets[i].established
    /\ sockets' = [sockets EXCEPT ![i].readyState = "CLOSED"]
    /\ stopHeartbeat
    /\ LET retry == retryAllowed(wasClean)
           emitted == <<emit("disconnected", [wasClean |-> wasClean])>>
           outcome == IF retry THEN "retry"
                      ELSE IF wasClean THEN "clean" ELSE "exhausted"
           failed == ~wasClean /\ ~sockets[i].established
       IN /\ IF retry
             THEN /\ reconnectAttempts' = reconnectAttempts + 1
                  /\ timers' = Append(timers, reconnectDelay(reconnectAttempts + 1))
             ELSE UNCHANGED <<reconnectAttempts, timers>>
          /\ last' = Did("close", <<i, wasClean>>, <<>>, emitted,
                         [scheduled |-> retry, failed |-> failed,
                          delay |-> IF retry
                                    THEN <<reconnectDelay(reconnectAttempts + 1)>>
                                    ELSE <<>>])
          /\ closeRun' = IF failed THEN closeRun + 1 ELSE closeRun
          /\ retryRun' = IF wasClean THEN 0
                         ELSE IF retry THEN retryRun + 1 ELSE retryRun
          /\ closeSeen' = closeSeen \cup
                 {[outcome |-> outcome,
                   observed |-> [Observed EXCEPT !.emitted = emitted]]}
    /\ UNCHANGED <<websocket, currentUser, currentRoom, users, messages, edits,
                   webrtcConnections, eventListeners, now, wire, tainted,
                   delivered, userFields, joining, otVars, auxVars>>

\* websocket.onerror of socket i
onerror(i) ==
    /\ i \in 1..Len(sockets)
    /\ sockets[i].readyState \in {"CONNECTING", "OPEN"}
    /\ last' = Did("error", <<i>>, <<>>, <<emit("error", <<>>)>>, <<>>)
    /\ UNCHANGED <<websocket, currentUser, currentRoom, users, messages, edits,
                   webrtcConnections, eventListeners, reconnectAttempts,
                   heartbeatInterval, sockets, timers, intervals, now, wire,
                   tainted, closeRun, closeSeen, retryRun,
                   delivered, userFields, joining, otVars, auxVars>>

\* the setTimeout callback of reconnect(): connect() with the same arguments
reconnectTimer(k) ==
    /\ k \in 1..Len(timers)
    /\ Len(sockets) < MaxSockets
    /\ Cardinality(Live) < MaxLive
    /\ timers' = SubSeq(timers, 1, k - 1) \o SubSeq(timers, k + 1, Len(timers))
    /\ NewSocket
    /\ last' = Did("timer", <<timers[k]>>, <<>>, <<>>, <<>>)
    /\ UNCHANGED <<currentUser, currentRoom, users, messages, edits,
                   webrtcConnections, eventListeners, reconnectAttempts,
                   heartbeatInterval, intervals, now, wire, tainted,
                   closeRun, closeSeen, retryRun,
                   delivered, userFields, joining, otVars, auxVars>>

\* the setInterval callback of startHeartbeat(), for a live handle
heartbeat(handle) ==
    /\ handle \in intervals
    /\ last' = Did("heartbeat", <<handle>>,
                   IF SocketIsOpen THEN send([type |-> "ping", timestamp |-> now])
                   ELSE <<>>,
                   <<>>, [early |-> ~SocketIsOpen, threw |-> "none"])
    /\ UNCHANGED <<websocket, currentUser, currentRoom, users, messages, edits,
                   webrtcConnections, eventListeners, reconnectAttempts,
                   heartbeatInterval, sockets, timers, intervals, now, wire,
                   tainted, closeRun, closeSeen, retryRun,
                   delivered, userFields, joining, otVars, auxVars>>

\* the body of disconnect(): close(1000) of the current socket, stopHeartbeat,
\* webrtcConnections.clear()
disconnectBody ==
    /\ IF websocket # 0
       THEN /\ sockets' = [sockets EXCEPT ![websocket].readyState =
                              IF @ \in {"CONNECTING", "OPEN"} THEN "CLOSING" ELSE @]
            /\ websocket' = 0
       ELSE UNCHANGED <<sockets, websocket>>
    /\ stopHeartbeat
    /\ webrtcConnections' = {}

disconnect ==
    /\ disconnectBody
    /\ last' = Did("disconnect", <<>>, <<>>, <<>>, <<>>)
    /\ UNCHANGED <<currentUser, currentRoom, users, messages, edits,
                   eventListeners, reconnectAttempts, timers, now, wire,
                   tainted, closeRun, closeSeen, retryRun,
                   delivered, userFields, joining, otVars, auxVars>>

destroy ==
    /\ disconnectBody
    /\ eventListeners' = [e \in Events |-> <<>>]
    /\ users' = {}
    /\ messages' = <<>>
    /\ edits' = <<>>
    /\ wire' = {}
    /\ delivered' = {}
    /\ last' = Did("destroy", <<>>, <<>>, <<>>, <<>>)
    /\ UNCHANGED <<currentUser, currentRoom, reconnectAttempts, timers, now,
                   tainted, closeRun, closeSeen, retryRun, userFields, joining, otVars, auxVars>>

ConnInit == MgrIdle /\ OTIdle /\ AuxIdle

ConnNext ==
    \/ connect
    \/ \E i \in 1..MaxSockets : onopen(i)
    \/ \E i \in 1..MaxSockets, wasClean \in BOOLEAN : onclose(i, wasClean)
    \/ \E i \in 1..MaxSockets : onerror(i)
    \/ \E k \in 1..MaxSockets : reconnectTimer(k)
    \/ \E h \in 1..MaxSockets : heartbeat(h)
    \/ disconnect
    \/ destroy

SpecConn == ConnInit /\ [][ConnNext]_vars

-----------------------------------------------------------------------------
(* The session: current user, current room, the edit log *)

MaxEdits == 3
MaxPosition == 1
MaxRand == 1
MaxTime == 2
MaxSessionSockets == 1
MaxSessionEdits == 2

LocalUser == "u1"
RemoteUsers == {"u2"}
Rooms == { [id |-> "r1", users |-> {"u1", "u2"}] }

\* generateId(): a random part and Date.now()
generateId(rnd) == <<rnd, now>>

\* currentText(): the fold of the log over the empty text
RECURSIVE foldEdits(_, _)
foldEdits(text, log) ==
    IF log = <<>> THEN text ELSE foldEdits(applyEdit(text, Head(log)), Tail(log))
currentText == foldEdits(<<>>, edits)

\* this.edits.reduce((edit, existingEdit) => this.transformEdit(edit, existingEdit), e)
RECURSIVE reduceTransform(_, _)
reduceTransform(edit, log) ==
    IF log = <<>> THEN edit
    ELSE reduceTransform(transformEdit(edit, Head(log)), Tail(log))

\* the log entries whose step of the reduce changed the position of the edit
ShiftedBy(edit, log) ==
    { k \in 1..Len(log) :
        LET before == reduceTransform(edit, SubSeq(log, 1, k - 1))
        IN transformEdit(before, log[k]).position # before.position }

\* the text a remote author saw: the log entries it had received, in log order
RECURSIVE Picked(_, _, _)
Picked(log, obs, k) ==
    IF k > Len(log) THEN <<>>
    ELSE (IF k \in obs THEN <<log[k]>> ELSE <<>>) \o Picked(log, obs, k + 1)
AuthorText(obs) == foldEdits(<<>>, Picked(edits, obs, 1))

\* the drafts of the session: those on the text that start within MaxPosition
\* and carry the longest content
SessionDrafts(text) ==
    { d \in DraftsOn(text) :
        d.position <= MaxPosition /\ Len(d.content) \in {0, MaxContentLen} }

\* drafts that are malformed on a text: a negative position, a delete past the end
MalformedOn(text) ==
    { [type |-> "insert", position |-> -1, content |-> ContentOfLen(1), length |-> <<>>],
      [type |-> "delete", position |-> Len(text), content |-> <<>>, length |-> <<1>>] }

setCurrentUser(user) ==
    /\ currentUser' = <<user>>
    /\ userFields' = NoFields
    /\ last' = Did("setCurrentUser", <<user>>,
                   send([type |-> "user_update", user |-> user]), <<>>,
                   [early |-> FALSE, threw |-> "none"])
    /\ UNCHANGED <<websocket, currentRoom, users, messages, edits,
                   webrtcConnections, eventListeners, reconnectAttempts,
                   heartbeatInterval, sockets, timers, intervals, now, wire,
                   tainted, closeRun, closeSeen, retryRun,
                   delivered, joining, otVars, auxVars>>

\* leaveRoom() that also resets the edit log
leaveRoom_ResetLog ==
    IF currentRoom = <<>> \/ currentUser = <<>>
    THEN /\ last' = Did("leaveRoom", <<>>, <<>>, <<>>,
                        [early |-> TRUE, threw |-> "none", left |-> currentRoom])
         /\ UNCHANGED <<websocket, currentUser, currentRoom, users, messages,
                        edits, webrtcConnections, eventListeners,
                        reconnectAttempts, heartbeatInterval, sockets, timers,
                        intervals, now, wire, tainted, closeRun, closeSeen, retryRun,
                   delivered, userFields, joining, otVars, auxVars>>
    ELSE /\ last' = Did("leaveRoom", <<>>,
                        send([type |-> "room_leave", roomId |-> currentRoom[1].id,
                              userId |-> currentUser[1]]), <<>>,
                        [early |-> FALSE, threw |-> "none", left |-> currentRoom])
         /\ currentRoom' = <<>>
         /\ users' = {}
         /\ edits' = <<>>
         /\ wire' = {}
         /\ UNCHANGED <<websocket, currentUser, messages,
                        webrtcConnections, eventListeners, reconnectAttempts,
                        heartbeatInterval, sockets, timers, intervals, now,
                        tainted, closeRun, closeSeen, retryRun,
                   delivered, userFields, joining, otVars, auxVars>>

\* leaveRoom() that keeps the room and the presence until the server answers
leaveRoom_AwaitAck ==
    IF currentRoom = <<>> \/ currentUser = <<>>
    THEN /\ last' = Did("leaveRoom", <<>>, <<>>, <<>>,
                        [early |-> TRUE, threw |-> "none", left |-> currentRoom])
         /\ UNCHANGED <<websocket, currentUser, currentRoom, users, messages,
                        edits, webrtcConnections, eventListeners,
                        reconnectAttempts, heartbeatInterval, sockets, timers,
                        intervals, now, wire, tainted, closeRun, closeSeen, retryRun,
                   delivered, userFields, joining, otVars, auxVars>>
    ELSE /\ last' = Did("leaveRoom", <<>>,
                        send([type |-> "room_leave", roomId |-> currentRoom[1].id,
                              userId |-> currentUser[1]]), <<>>,
                        [early |-> FALSE, threw |-> "none", left |-> currentRoom])
         /\ UNCHANGED <<websocket, currentUser, currentRoom, users, messages, edits,
                        webrtcConnections, eventListeners, reconnectAttempts,
                        heartbeatInterval, sockets, timers, intervals, now,
                        wire, tainted, closeRun, closeSeen, retryRun,
                   delivered, userFields, joining, otVars, auxVars>>

leaveRoom ==
    IF currentRoom = <<>> \/ currentUser = <<>>
    THEN /\ last' = Did("leaveRoom", <<>>, <<>>, <<>>,
                        [early |-> TRUE, threw |-> "none", left |-> currentRoom])
         /\ UNCHANGED <<websocket, currentUser, currentRoom, users, messages,
                        edits, webrtcConnections, eventListeners,
                        reconnectAttempts, heartbeatInterval, sockets, timers,
                        intervals, now, wire, tainted, closeRun, closeSeen, retryRun,
                   delivered, userFields, joining, otVars, auxVars>>
    ELSE /\ last' = Did("leaveRoom", <<>>,
                        send([type |-> "room_leave", roomId |-> currentRoom[1].id,
                              userId |-> currentUser[1]]), <<>>,
                        [early |-> FALSE, threw |-> "none", left |-> currentRoom])
         /\ currentRoom' = <<>>
         /\ users' = {}
         /\ UNCHANGED <<websocket, currentUser, messages, edits,
                        webrtcConnections, eventListeners, reconnectAttempts,
                        heartbeatInterval, sockets, timers, intervals, now,
                        wire, tainted, closeRun, closeSeen, retryRun,
                   delivered, userFields, joining, otVars, auxVars>>

\* sendEdit(edit): nothing is validated; the edit is appended, sent and emitted
sendEdit(draft, rnd) ==
    /\ Len(edits) < MaxEdits
    /\ LET malformed == Malformed(currentText, draft) IN
       IF currentUser = <<>> \/ currentRoom = <<>>
       THEN /\ last' = Did("sendEdit", <<draft>>, <<>>, <<>>,
                           [malformed |-> malformed, threw |-> "none",
                            early |-> TRUE, appended |-> FALSE])
            /\ UNCHANGED <<edits, wire, tainted>>
       ELSE LET fullEdit == FullEdit(draft, generateId(rnd), currentUser[1], now) IN
            /\ edits' = Append(edits, fullEdit)
            /\ last' = Did("sendEdit", <<draft>>,
                           send([type |-> "edit", edit |-> fullEdit]),
                           <<emit("edit", fullEdit)>>,
                           [malformed |-> malformed, threw |-> "none",
                            early |-> FALSE, appended |-> TRUE])
            /\ wire' = IF SocketIsOpen THEN wire \cup {Len(edits) + 1} ELSE wire
            /\ tainted' = (tainted \/ malformed)
    /\ UNCHANGED <<websocket, currentUser, currentRoom, users, messages,
                   webrtcConnections, eventListeners, reconnectAttempts,
                   heartbeatInterval, sockets, timers, intervals, now,
                   closeRun, closeSeen, retryRun,
                   delivered, userFields, joining, otVars, auxVars>>

\* a frame can be delivered by any socket whose onmessage is attached and open
CanReceive == \E i \in 1..Len(sockets) : sockets[i].readyState = "OPEN"

\* handleMessage, case 'room_joined'
handleRoomJoined(room) ==
    /\ currentRoom' = <<room>>
    /\ users' = users \cup room.users
    /\ last' = Did("room_joined", <<room>>, <<>>, <<emit("room_joined", room)>>, <<>>)
    /\ UNCHANGED <<edits, wire, tainted>>

\* the inbound 'edit' case keeping one entry per edit id
handleEdit_Dedup(edit, observed) ==
    IF \E k \in 1..Len(edits) : edits[k].id = edit.id
    THEN /\ last' = Did("edit", <<edit>>, <<>>, <<>>,
                        [malformed |-> FALSE, threw |-> "none", early |-> TRUE,
                         appended |-> FALSE, observed |-> observed,
                         shiftedBy |-> {}])
         /\ UNCHANGED <<edits, wire, tainted, currentRoom, users>>
    ELSE /\ edits' = Append(edits, reduceTransform(edit, edits))
         /\ last' = Did("edit", <<edit>>, <<>>,
                        <<emit("edit", reduceTransform(edit, edits))>>,
                        [malformed |-> FALSE, threw |-> "none", early |-> FALSE,
                         appended |-> TRUE, observed |-> observed,
                         shiftedBy |-> ShiftedBy(edit, edits)])
         /\ wire' = wire \cup {Len(edits) + 1}
         /\ UNCHANGED <<tainted, currentRoom, users>>

\* handleMessage, case 'edit'; observed is the set of log entries the author of
\* the edit had received when creating it (known to the author, not to the code)
handleEdit(edit, observed) ==
    /\ Len(edits) < MaxEdits
    /\ LET transformedEdit == reduceTransform(edit, edits)
           malformed == Malformed(currentText, edit)
       IN /\ edits' = Append(edits, transformedEdit)
          /\ last' = Did("edit", <<edit>>, <<>>, <<emit("edit", transformedEdit)>>,
                         [malformed |-> malformed, threw |-> "none",
                          early |-> FALSE, appended |-> TRUE,
                          observed |-> observed,
                          shiftedBy |-> ShiftedBy(edit, edits)])
          /\ wire' = wire \cup {Len(edits) + 1}
          /\ tainted' = (tainted \/ malformed \/ Malformed(AuthorText(observed), edit))
    /\ UNCHANGED <<currentRoom, users>>

\* the default case treating the unknown type as an error
handleUnknown_Fatal(type) ==
    /\ last' = Did("unknown", <<type>>, <<>>, <<emit("error", type)>>,
                   [threw |-> "Error"])
    /\ UNCHANGED <<currentRoom, users, edits, wire, tainted>>

\* handleMessage, default case: console.log only
handleUnknown(type) ==
    /\ last' = Did("unknown", <<type>>, <<>>, <<>>, [threw |-> "none"])
    /\ UNCHANGED <<currentRoom, users, edits, wire, tainted>>

\* a remote author has seen its own earlier edits, and its clock does not run
\* backwards between them
AuthorCanHave(author, observed, stamp) ==
    \A k \in 1..Len(edits) :
        edits[k].userId = author => (k \in observed /\ edits[k].timestamp <= stamp)

\* websocket.onmessage: handleMessage(JSON.parse(event.data))
handleMessage ==
    /\ CanReceive
    /\ \/ \E room \in Rooms : handleRoomJoined(room)
       \/ \E observed \in SUBSET wire, author \in RemoteUsers,
             rnd \in 1..MaxRand, stamp \in 1..MaxTime :
             /\ AuthorCanHave(author, observed, stamp)
             /\ \E draft \in SessionDrafts(AuthorText(observed))
                               \cup MalformedOn(AuthorText(observed)) :
                   handleEdit(FullEdit(draft, <<rnd, stamp>>, author, stamp), observed)
       \/ handleUnknown("nonsense")
    /\ UNCHANGED <<websocket, currentUser, messages, webrtcConnections,
                   eventListeners, reconnectAttempts, heartbeatInterval,
                   sockets, timers, intervals, now, closeRun, closeSeen, retryRun,
                   delivered, userFields, joining, otVars, auxVars>>

\* time passes
Tick ==
    /\ now < MaxTime
    /\ now' = now + 1
    /\ UNCHANGED <<websocket, currentUser, currentRoom, users, messages, edits,
                   webrtcConnections, eventListeners, reconnectAttempts,
                   heartbeatInterval, sockets, timers, intervals, last, wire,
                   tainted, closeRun, closeSeen, retryRun,
                   delivered, userFields, joining, otVars, auxVars>>

\* sendEdit(draft) for the drafts the local user can make on the text it sees
sendEditAny ==
    \E rnd \in 1..MaxRand :
       \E draft \in SessionDrafts(currentText) \cup MalformedOn(currentText) :
          sendEdit(draft, rnd)

Init == MgrIdle /\ OTIdle /\ AuxIdle

\* the whole manager, on a short log
Next ==
    \/ Len(sockets) < MaxSessionSockets /\ connect
    \/ \E i \in 1..MaxSessionSockets : onopen(i)
    \/ \E i \in 1..MaxSessionSockets, wasClean \in BOOLEAN : onclose(i, wasClean)
    \/ \E k \in 1..MaxSessionSockets : reconnectTimer(k)
    \/ disconnect
    \/ destroy
    \/ setCurrentUser(LocalUser)
    \/ leaveRoom
    \/ Len(edits) < MaxSessionEdits /\ sendEditAny
    \/ Len(edits) < MaxSessionEdits /\ handleMessage
    \/ Tick

Spec == Init /\ [][Next]_vars

\* the edit log of one session that stays connected
LogNext ==
    \/ Len(sockets) < MaxSessionSockets /\ connect
    \/ \E i \in 1..MaxSessionSockets : onopen(i)
    \/ setCurrentUser(LocalUser)
    \/ sendEditAny
    \/ handleMessage
    \/ Tick

SpecLog == Init /\ [][LogNext]_vars

-----------------------------------------------------------------------------
(* The event system: on, off, and the forEach of emit *)

MaxListeners == 3

\* the callbacks a consumer subscribes: one that returns, one that throws, one
\* that unsubscribes itself, one that unsubscribes the "log" callback
Callbacks == {"log", "boom", "once", "kick"}

\* the event the consumer subscribes to
BusEvents == {"message"}

\* listeners.indexOf(callback), counted from 1; 0 when absent
indexOf(listeners, callback) ==
    IF \E k \in 1..Len(listeners) : listeners[k] = callback
    THEN CHOOSE k \in 1..Len(listeners) :
            /\ listeners[k] = callback
            /\ \A j \in 1..(k - 1) : listeners[j] # callback
    ELSE 0

\* listeners.splice(index, 1)
splice(listeners, index) ==
    SubSeq(listeners, 1, index - 1) \o SubSeq(listeners, index + 1, Len(listeners))

\* on(event, callback)
on(event, callback) ==
    /\ Len(eventListeners[event]) < MaxListeners
    /\ eventListeners' = [eventListeners EXCEPT ![event] = Append(@, callback)]
    /\ last' = Did("on", <<event, callback>>, <<>>, <<>>, <<>>)
    /\ UNCHANGED <<websocket, currentUser, userFields, currentRoom, users,
                   messages, edits, webrtcConnections, reconnectAttempts,
                   heartbeatInterval, sockets, timers, intervals, now, wire,
                   tainted, closeRun, closeSeen, retryRun, delivered, joining,
                   otVars, auxVars>>

\* off(event, callback)
off(event, callback) ==
    /\ LET index == indexOf(eventListeners[event], callback) IN
       eventListeners' =
           IF index > 0
           THEN [eventListeners EXCEPT ![event] = splice(@, index)]
           ELSE eventListeners
    /\ last' = Did("off", <<event, callback>>, <<>>, <<>>, <<>>)
    /\ UNCHANGED <<websocket, currentUser, userFields, currentRoom, users,
                   messages, edits, webrtcConnections, reconnectAttempts,
                   heartbeatInterval, sockets, timers, intervals, now, wire,
                   tainted, closeRun, closeSeen, retryRun, delivered, joining,
                   otVars, auxVars>>

\* what a callback does to the listener array it sits in; ids are the
\* positions the listeners had when the emit started
calledBack(callback, bus) ==
    LET target == IF callback = "once" THEN "once"
                  ELSE IF callback = "kick" THEN "log" ELSE "none"
        index == indexOf(bus.listeners, target)
    IN IF index > 0
       THEN [bus EXCEPT !.listeners = splice(@, index), !.ids = splice(@, index)]
       ELSE bus

\* listeners.forEach(callback => callback(data)): index k runs over the array
\* as it is when k is reached; a throwing callback ends the loop
RECURSIVE forEach(_, _)
forEach(bus, k) ==
    IF k > Len(bus.listeners) THEN bus
    ELSE LET callback == bus.listeners[k]
             called == [bus EXCEPT !.invoked = Append(@, bus.ids[k])]
         IN IF callback = "boom"
            THEN [called EXCEPT !.threw = TRUE]
            ELSE forEach(calledBack(callback, called), k + 1)

\* emit(event, data) with the listeners of the event; the outcome holds the
\* listener array afterwards, the listeners invoked, and whether a callback threw
dispatch(event) ==
    forEach([listeners |-> eventListeners[event],
             ids |-> [k \in 1..Len(eventListeners[event]) |-> k],
             invoked |-> <<>>, threw |-> FALSE], 1)

\* what the properties read about an emit: the listeners when it started, the
\* ones invoked, the ones still subscribed afterwards, and whether the
\* exception of a callback reached the caller of emit (forEach has no catch)
Emitted(event, bus) ==
    [subscribed |-> eventListeners[event], invoked |-> bus.invoked,
     kept |-> bus.ids, threw |-> bus.threw, propagated |-> bus.threw]

-----------------------------------------------------------------------------
(* The room session: rooms, presence, chat messages, cursor and selection *)

MaxMessages == 2
MaxRoomSockets == 2
MaxDrops == 1
MaxRoomEdits == 1

Guests == {"u3"}
RoomsToJoin == Rooms \cup { [id |-> "r2", users |-> {"u1", "u3"}] }
RoomNames == {"notes"}
Contents == {"hello"}

\* the fields no operation of the room session touches
linkVars == <<websocket, reconnectAttempts, heartbeatInterval, sockets, timers,
              intervals, closeRun, closeSeen, retryRun>>
logVars == <<edits, wire, tainted>>

\* createRoom(name): the room is built and sent; this.currentRoom is not assigned
createRoom(name, rnd) ==
    /\ IF currentUser = <<>>
       THEN last' = Did("createRoom", <<name>>, <<>>, <<>>,
                        [early |-> TRUE, threw |-> "none", returned |-> <<>>])
       ELSE LET room == [id |-> generateId(rnd), name |-> name,
                         users |-> {currentUser[1]}]
            IN last' = Did("createRoom", <<name>>,
                           send([type |-> "room_create", room |-> room]), <<>>,
                           [early |-> FALSE, threw |-> "none", returned |-> <<room>>])
    /\ UNCHANGED <<currentUser, userFields, currentRoom, users, messages,
                   webrtcConnections, eventListeners, now, delivered, joining,
                   linkVars, logVars, otVars, auxVars>>

\* joinRoom(roomId)
joinRoom(roomId) ==
    /\ IF currentUser = <<>>
       THEN /\ last' = Did("joinRoom", <<roomId>>, <<>>, <<>>,
                           [early |-> TRUE, threw |-> "none", returned |-> FALSE])
            /\ UNCHANGED joining
       ELSE /\ last' = Did("joinRoom", <<roomId>>,
                           send([type |-> "room_join", roomId |-> roomId,
                                 userId |-> currentUser[1]]), <<>>,
                           [early |-> FALSE, threw |-> "none", returned |-> TRUE])
            /\ joining' = <<roomId>>
    /\ UNCHANGED <<currentUser, userFields, currentRoom, users, messages,
                   webrtcConnections, eventListeners, now, delivered,
                   linkVars, logVars, otVars, auxVars>>

\* sendMessage(content, type) without the check of the current user and room
sendMessage_Unguarded(content, type, rnd) ==
    /\ Len(messages) < MaxMessages
    /\ LET message == [id |-> generateId(rnd), type |-> type,
                       userId |-> IF currentUser = <<>> THEN "" ELSE currentUser[1],
                       roomId |-> IF currentRoom = <<>> THEN "" ELSE currentRoom[1].id,
                       content |-> content, timestamp |-> now]
           bus == dispatch("message")
       IN /\ messages' = Append(messages, message)
          /\ delivered' = IF SocketIsOpen THEN delivered \cup {Len(messages) + 1}
                          ELSE delivered
          /\ eventListeners' = [eventListeners EXCEPT !["message"] = bus.listeners]
          /\ last' = Did("sendMessage", <<content, type>>,
                         send([type |-> "message", message |-> message]),
                         <<emit("message", message)>>,
                         [early |-> FALSE,
                          threw |-> IF bus.threw THEN "callback" ELSE "none",
                          message |-> <<message>>,
                          bus |-> Emitted("message", bus)])
    /\ UNCHANGED <<currentUser, userFields, currentRoom, users,
                   webrtcConnections, now, joining, linkVars, logVars, otVars, auxVars>>

\* sendMessage(content, type)
sendMessage(content, type, rnd) ==
    /\ Len(messages) < MaxMessages
    /\ IF currentUser = <<>> \/ currentRoom = <<>>
       THEN /\ last' = Did("sendMessage", <<content, type>>, <<>>, <<>>,
                           [early |-> TRUE, threw |-> "none"])
            /\ UNCHANGED <<messages, delivered, eventListeners>>
       ELSE LET message == [id |-> generateId(rnd), type |-> type,
                            userId |-> currentUser[1], roomId |-> currentRoom[1].id,
                            content |-> content, timestamp |-> now]
                bus == dispatch("message")
            IN /\ messages' = Append(messages, message)
               /\ delivered' = IF SocketIsOpen
                               THEN delivered \cup {Len(messages) + 1}
                               ELSE delivered
               /\ eventListeners' =
                      [eventListeners EXCEPT !["message"] = bus.listeners]
               /\ last' = Did("sendMessage", <<content, type>>,
                              send([type |-> "message", message |-> message]),
                              <<emit("message", message)>>,
                              [early |-> FALSE,
                               threw |-> IF bus.threw THEN "callback" ELSE "none",
                               message |-> <<message>>,
                               bus |-> Emitted("message", bus)])
    /\ UNCHANGED <<currentUser, userFields, currentRoom, users,
                   webrtcConnections, now, joining, linkVars, logVars, otVars, auxVars>>

\* sendReaction(messageId, emoji): sent only, not kept in this.messages
sendReaction(messageId, emoji, rnd) ==
    /\ IF currentUser = <<>> \/ currentRoom = <<>>
       THEN last' = Did("sendReaction", <<messageId, emoji>>, <<>>, <<>>,
                        [early |-> TRUE, threw |-> "none"])
       ELSE LET reaction == [id |-> generateId(rnd), type |-> "reaction",
                             userId |-> currentUser[1], roomId |-> currentRoom[1].id,
                             content |-> [messageId |-> messageId, emoji |-> emoji],
                             timestamp |-> now]
            IN last' = Did("sendReaction", <<messageId, emoji>>,
                           send([type |-> "reaction", reaction |-> reaction]), <<>>,
                           [early |-> FALSE, threw |-> "none"])
    /\ UNCHANGED <<currentUser, userFields, currentRoom, users, messages,
                   webrtcConnections, eventListeners, now, delivered, joining,
                   linkVars, logVars, otVars, auxVars>>

\* updateUserCursor(x, y)
updateUserCursor(x, y) ==
    /\ IF currentUser = <<>>
       THEN /\ last' = Did("updateUserCursor", <<x, y>>, <<>>, <<>>,
                           [early |-> TRUE, threw |-> "none"])
            /\ UNCHANGED userFields
       ELSE /\ userFields' = [userFields EXCEPT !.cursor = <<[x |-> x, y |-> y]>>]
            /\ last' = Did("updateUserCursor", <<x, y>>,
                           send([type |-> "cursor_update", userId |-> currentUser[1],
                                 cursor |-> [x |-> x, y |-> y]]), <<>>,
                           [early |-> FALSE, threw |-> "none"])
    /\ UNCHANGED <<currentUser, currentRoom, users, messages,
                   webrtcConnections, eventListeners, now, delivered, joining,
                   linkVars, logVars, otVars, auxVars>>

\* updateUserSelection(start, end)
updateUserSelection(start, end) ==
    /\ IF currentUser = <<>>
       THEN /\ last' = Did("updateUserSelection", <<start, end>>, <<>>, <<>>,
                           [early |-> TRUE, threw |-> "none"])
            /\ UNCHANGED userFields
       ELSE /\ userFields' = [userFields EXCEPT
                                 !.selection = <<[start |-> start, end |-> end]>>]
            /\ last' = Did("updateUserSelection", <<start, end>>,
                           send([type |-> "selection_update",
                                 userId |-> currentUser[1],
                                 selection |-> [start |-> start, end |-> end]]), <<>>,
                           [early |-> FALSE, threw |-> "none"])
    /\ UNCHANGED <<currentUser, currentRoom, users, messages,
                   webrtcConnections, eventListeners, now, delivered, joining,
                   linkVars, logVars, otVars, auxVars>>

\* handleMessage, case 'user_joined'
handleUserJoined(user) ==
    LET bus == dispatch("user_joined") IN
    /\ users' = users \cup {user}
    /\ eventListeners' = [eventListeners EXCEPT !["user_joined"] = bus.listeners]
    /\ last' = Did("user_joined", <<user>>, <<>>, <<emit("user_joined", user)>>,
                   [threw |-> IF bus.threw THEN "callback" ELSE "none",
                    bus |-> Emitted("user_joined", bus)])
    /\ UNCHANGED <<currentRoom, messages, delivered, joining>>

\* handleMessage, case 'user_left'
handleUserLeft(userId) ==
    LET bus == dispatch("user_left") IN
    /\ users' = users \ {userId}
    /\ eventListeners' = [eventListeners EXCEPT !["user_left"] = bus.listeners]
    /\ last' = Did("user_left", <<userId>>, <<>>, <<emit("user_left", userId)>>,
                   [threw |-> IF bus.threw THEN "callback" ELSE "none",
                    bus |-> Emitted("user_left", bus)])
    /\ UNCHANGED <<currentRoom, messages, delivered, joining>>

\* handleMessage, case 'message'
handleChatMessage(message) ==
    LET bus == dispatch("message") IN
    /\ Len(messages) < MaxMessages
    /\ messages' = Append(messages, message)
    /\ delivered' = delivered \cup {Len(messages) + 1}
    /\ eventListeners' = [eventListeners EXCEPT !["message"] = bus.listeners]
    /\ last' = Did("message", <<message>>, <<>>, <<emit("message", message)>>,
                   [threw |-> IF bus.threw THEN "callback" ELSE "none",
                    bus |-> Emitted("message", bus)])
    /\ UNCHANGED <<currentRoom, users, joining>>

\* a chat message of a remote user
RemoteMessage(author) ==
    [id |-> <<0, 0>>, type |-> "text", userId |-> author, roomId |-> "r1",
     content |-> "hi", timestamp |-> 0]

\* websocket.onmessage for the frames of the room session.  The room_joined
\* that follows a joinRoom of the same room answers it.
handleRoomFrame ==
    /\ CanReceive
    /\ \/ \E room \in RoomsToJoin :
             /\ handleRoomJoined(room)
             /\ joining' = IF joining = <<room.id>>
                           THEN <<room.id, "answered">> ELSE <<>>
             /\ UNCHANGED <<messages, delivered, eventListeners>>
       \/ \E user \in Guests : handleUserJoined(user) /\ UNCHANGED logVars
       \/ \E userId \in Guests : handleUserLeft(userId) /\ UNCHANGED logVars
       \/ \E author \in RemoteUsers :
             handleChatMessage(RemoteMessage(author)) /\ UNCHANGED logVars
    /\ UNCHANGED <<currentUser, userFields, webrtcConnections, now, linkVars, otVars, auxVars>>

\* the operations of the consumer in a room session
roomCall ==
    \/ setCurrentUser(LocalUser)
    \/ \E name \in RoomNames, rnd \in 1..MaxRand : createRoom(name, rnd)
    \/ \E room \in RoomsToJoin : joinRoom(room.id)
    \/ leaveRoom
    \/ \E content \in Contents, rnd \in 1..MaxRand :
          sendMessage(content, "text", rnd)

\* the other operations of the consumer that send a frame
presenceCall ==
    \/ \E rnd \in 1..MaxRand : sendReaction(<<0, 0>>, "+1", rnd)
    \/ updateUserCursor(1, 1)
    \/ updateUserSelection(0, 1)

\* a connection that drops and comes back through reconnect()
link ==
    \/ Len(sockets) < MaxRoomSockets /\ connect
    \/ \E i \in 1..MaxRoomSockets : onopen(i)
    \/ \E i \in 1..MaxDrops : onclose(i, FALSE)
    \/ \E k \in 1..MaxRoomSockets : Len(sockets) < MaxRoomSockets /\ reconnectTimer(k)

\* a room session over such a connection
RoomNext ==
    \/ link
    \/ roomCall
    \/ handleRoomFrame

SpecRoom == Init /\ [][RoomNext]_vars

\* every operation that sends, over such a connection
OutNext ==
    \/ link
    \/ \E h \in 1..MaxRoomSockets : heartbeat(h)
    \/ roomCall
    \/ presenceCall
    \/ Len(edits) < MaxRoomEdits /\ sendEditAny
    \/ Len(edits) < MaxRoomEdits /\ handleMessage

SpecOut == Init /\ [][OutNext]_vars

\* the event loop runs every handler and timer that stays due, and the
\* consumer keeps calling
SpecOutFair ==
    /\ SpecOut
    /\ WF_vars(link)
    /\ WF_vars(\E h \in 1..MaxRoomSockets : heartbeat(h))
    /\ WF_vars(roomCall)
    /\ WF_vars(presenceCall)

-----------------------------------------------------------------------------
(* A room session with subscribed callbacks *)

BusNext ==
    \/ Len(sockets) < MaxSessionSockets /\ connect
    \/ \E i \in 1..MaxSessionSockets : onopen(i)
    \/ \E event \in BusEvents, callback \in Callbacks : on(event, callback)
    \/ \E event \in BusEvents, callback \in Callbacks : off(event, callback)
    \/ setCurrentUser(LocalUser)
    \/ \E content \in Contents, rnd \in 1..MaxRand :
          sendMessage(content, "text", rnd)
    \/ handleRoomFrame

SpecBus == Init /\ [][BusNext]_vars

-----------------------------------------------------------------------------
(* The ids of one manager.  generateId() is the random part followed by the  *)
(* clock, both in base 36; an id is modelled as that pair, the random part  *)
(* and the clock each of a fixed number of digits.                          *)

MaxIds == 4
MaxIdRand == 2

\* a call of generateId() by createRoom, sendMessage, sendReaction or sendEdit
newId(rnd) ==
    /\ Len(ids) < MaxIds
    /\ ids' = Append(ids, generateId(rnd))
    /\ UNCHANGED <<mgrVars, otVars, peerVars, storeVars, telVars>>

IdNext ==
    \/ \E rnd \in 1..MaxIdRand : newId(rnd)
    \/ Tick

SpecId == Init /\ [][IdNext]_vars

-----------------------------------------------------------------------------
(* Moving from one room to the next within one connection *)

MaxMoveEdits == 2
MaxMoveMessages == 1

\* the users of the current room other than the local one: the server relays
\* the frames of the members of the room
Roommates == IF currentRoom = <<>> THEN {} ELSE currentRoom[1].users \ {LocalUser}

\* websocket.onmessage for the frames of a session that changes rooms:
\* room_joined, and the chat messages and edits of the members of the room
handleMoveFrame ==
    /\ CanReceive
    /\ \/ \E room \in RoomsToJoin :
             /\ handleRoomJoined(room)
             /\ UNCHANGED <<messages, delivered, eventListeners>>
       \/ \E author \in Roommates :
             /\ Len(messages) < MaxMoveMessages
             /\ handleChatMessage(RemoteMessage(author))
             /\ UNCHANGED logVars
       \/ \E author \in Roommates, observed \in SUBSET wire,
             rnd \in 1..MaxRand, stamp \in 1..MaxTime :
             /\ Len(edits) < MaxMoveEdits
             /\ AuthorCanHave(author, observed, stamp)
             /\ \E draft \in SessionDrafts(AuthorText(observed)) :
                   handleEdit(FullEdit(draft, <<rnd, stamp>>, author, stamp), observed)
             /\ UNCHANGED <<messages, delivered, eventListeners>>
    /\ UNCHANGED <<currentUser, userFields, webrtcConnections, now, joining,
                   linkVars, otVars, auxVars>>

MoveNext ==
    \/ connect
    \/ onopen(1)
    \/ setCurrentUser(LocalUser)
    \/ leaveRoom
    \/ destroy
    \/ Len(edits) < MaxMoveEdits /\ sendEditAny
    \/ handleMoveFrame
    \/ Tick

SpecMove == Init /\ [][MoveNext]_vars

-----------------------------------------------------------------------------
(* The server echoing the local user's edits back to their author *)

MaxEchoEdits == 3

\* websocket.onmessage with an 'edit' frame that is the server's copy of an
\* edit the local user sent: the author had seen the log entries before it
handleEcho ==
    /\ CanReceive
    /\ Len(edits) < MaxEchoEdits
    /\ \E k \in wire :
          /\ k <= Len(edits)
          /\ currentUser # <<>>
          /\ edits[k].userId = currentUser[1]
          /\ handleEdit(edits[k], 1..(k - 1))
    /\ UNCHANGED <<websocket, currentUser, messages, webrtcConnections,
                   eventListeners, reconnectAttempts, heartbeatInterval,
                   sockets, timers, intervals, now, closeRun, closeSeen, retryRun,
                   delivered, userFields, joining, otVars, auxVars>>

\* one connected session whose own edits come back from the server
EchoNext ==
    \/ Len(sockets) < MaxSessionSockets /\ connect
    \/ \E i \in 1..MaxSessionSockets : onopen(i)
    \/ setCurrentUser(LocalUser)
    \/ Len(edits) < MaxEchoEdits /\ sendEditAny
    \/ Len(edits) < MaxEchoEdits /\ handleMessage
    \/ handleEcho
    \/ Tick

SpecEcho == Init /\ [][EchoNext]_vars

-----------------------------------------------------------------------------
(* Sockets that overlap: the consumer connects again, events arrive late *)

MaxRelinkSockets == 3

\* connect() and disconnect() called at any time, with the open and close
\* events of every socket, the reconnect timers and the heartbeat
RelinkNext ==
    \/ Len(sockets) < MaxRelinkSockets /\ connectCall
    \/ \E i \in 1..MaxRelinkSockets : onopen(i)
    \/ \E i \in 1..MaxRelinkSockets, wasClean \in BOOLEAN : onclose(i, wasClean)
    \/ Len(sockets) < MaxRelinkSockets /\ \E k \in 1..MaxRelinkSockets : reconnectTimer(k)
    \/ \E h \in 1..MaxRelinkSockets : heartbeat(h)
    \/ disconnect

SpecRelink == ConnInit /\ [][RelinkNext]_vars

-----------------------------------------------------------------------------
(* Peer connections: initializeWebRTC, inbound offers, data channel events *)

MaxChannels == 3

Peers == {"u2", "u3"}

\* everything of the manager but webrtcConnections and last
peerFrame == <<websocket, currentUser, userFields, currentRoom, users, messages,
               edits, eventListeners, reconnectAttempts, heartbeatInterval,
               sockets, timers, intervals, now, wire, tainted, closeRun,
               closeSeen, retryRun, delivered, joining>>

\* webrtcConnections.set(peerId, entry)
mapSet(map, entry) == { e \in map : e.peerId # entry.peerId } \cup {entry}

\* webrtcConnections.delete(peerId)
mapDelete(map, peerId) == { e \in map : e.peerId # peerId }

\* initializeWebRTC(peerId); the RTCPeerConnection constructor can throw
initializeWebRTC(peerId) ==
    /\ Len(channels) < MaxChannels
    /\ \E threw \in BOOLEAN :
          IF threw
          THEN /\ last' = Did("initializeWebRTC", <<peerId>>, <<>>, <<>>,
                              [returned |-> FALSE])
               /\ UNCHANGED <<webrtcConnections, channels>>
          ELSE /\ channels' = Append(channels, [peerId |-> peerId,
                                                readyState |-> "connecting",
                                                created |-> TRUE])
               /\ webrtcConnections' =
                     mapSet(webrtcConnections,
                            [peerId |-> peerId, channel |-> Len(channels) + 1,
                             status |-> "connecting"])
               /\ last' = Did("initializeWebRTC", <<peerId>>,
                              send([type |-> "webrtc_offer", peerId |-> peerId]),
                              <<>>, [returned |-> TRUE])
    /\ UNCHANGED <<peerFrame, answered, ids, otVars, storeVars, telVars>>

\* handleMessage, case 'webrtc_offer': handleWebRTCOffer(peerId, offer)
handleWebRTCOffer(peerId) ==
    /\ CanReceive
    /\ answered' = answered \cup {peerId}
    /\ last' = Did("webrtc_offer", <<peerId>>,
                   send([type |-> "webrtc_answer", peerId |-> peerId]), <<>>, <<>>)
    /\ UNCHANGED <<peerFrame, webrtcConnections, channels, ids, otVars, storeVars, telVars>>

\* peerConnection.ondatachannel installed by handleWebRTCOffer: the channel the
\* peer created arrives
ondatachannel(peerId) ==
    /\ peerId \in answered
    /\ Len(channels) < MaxChannels
    /\ channels' = Append(channels, [peerId |-> peerId, readyState |-> "open",
                                     created |-> FALSE])
    /\ webrtcConnections' =
          mapSet(webrtcConnections,
                 [peerId |-> peerId, channel |-> Len(channels) + 1,
                  status |-> "connected"])
    /\ last' = Did("datachannel", <<peerId>>, <<>>, <<>>, <<>>)
    /\ UNCHANGED <<peerFrame, answered, ids, otVars, storeVars, telVars>>

\* handleMessage, case 'webrtc_answer': handleWebRTCAnswer(peerId, answer)
handleWebRTCAnswer(peerId) ==
    /\ CanReceive
    /\ webrtcConnections' =
          { IF e.peerId = peerId THEN [e EXCEPT !.status = "connected"] ELSE e :
            e \in webrtcConnections }
    /\ last' = Did("webrtc_answer", <<peerId>>, <<>>, <<>>, <<>>)
    /\ UNCHANGED <<peerFrame, channels, answered, ids, otVars, storeVars, telVars>>

\* dataChannel.onopen of channel c
channelOpen(c) ==
    /\ c \in 1..Len(channels)
    /\ channels[c].readyState = "connecting"
    /\ channels' = [channels EXCEPT ![c].readyState = "open"]
    /\ last' = Did("channelOpen", <<c>>, <<>>,
                   IF channels[c].created
                   THEN <<emit("webrtc_connected", channels[c].peerId)>> ELSE <<>>,
                   <<>>)
    /\ UNCHANGED <<peerFrame, webrtcConnections, answered, ids, otVars, storeVars, telVars>>

\* the close of channel c.  Only the channels initializeWebRTC created have an
\* onclose handler: it deletes the entry of the peer id
channelClose(c) ==
    /\ c \in 1..Len(channels)
    /\ channels[c].readyState # "closed"
    /\ channels' = [channels EXCEPT ![c].readyState = "closed"]
    /\ IF channels[c].created
       THEN /\ webrtcConnections' = mapDelete(webrtcConnections, channels[c].peerId)
            /\ last' = Did("channelClose", <<c>>, <<>>,
                           <<emit("webrtc_disconnected", channels[c].peerId)>>, <<>>)
       ELSE /\ last' = Did("channelClose", <<c>>, <<>>, <<>>, <<>>)
            /\ UNCHANGED webrtcConnections
    /\ UNCHANGED <<peerFrame, answered, ids, otVars, storeVars, telVars>>

PeerNext ==
    \/ connect
    \/ onopen(1)
    \/ \E peerId \in Peers : initializeWebRTC(peerId)
    \/ \E peerId \in Peers : handleWebRTCOffer(peerId)
    \/ \E peerId \in Peers : ondatachannel(peerId)
    \/ \E peerId \in Peers : handleWebRTCAnswer(peerId)
    \/ \E c \in 1..MaxChannels : channelOpen(c)
    \/ \E c \in 1..MaxChannels : channelClose(c)
    \/ disconnect

SpecPeer == Init /\ [][PeerNext]_vars

-----------------------------------------------------------------------------
(* StorageManager: the cached settings and chrome.storage.sync *)

MaxOthers == 1

\* { ...settings, ...updates }: the fields the partial object carries win
merge(settings, updates) ==
    [theme |-> IF updates.theme # <<>> THEN updates.theme[1] ELSE settings.theme,
     language |-> IF updates.language # <<>> THEN updates.language[1]
                  ELSE settings.language]

\* { theme: "light", ..., ...result.settings }: the stored object over the defaults
withDefaults(result) == IF result = <<>> THEN DefaultSettings ELSE result[1]

\* everything but the storage manager
notStore == <<mgrVars, otVars, ids, peerVars, telVars>>

\* updateSettings(updates) up to its first pending storage operation: with a
\* cached object getSettings() returns it and storage.sync.set is requested,
\* without one storage.sync.get is requested
updateSettings(c, updates) ==
    /\ calls[c].pc = "idle"
    /\ calls' = [calls EXCEPT ![c] =
                    IF cache # <<>>
                    THEN [pc |-> "set", updates |-> updates, result |-> <<>>,
                          newSettings |-> <<merge(cache[1], updates)>>]
                    ELSE [pc |-> "get", updates |-> updates, result |-> <<>>,
                          newSettings |-> <<>>]]
    /\ UNCHANGED <<store, cache, changed, setQueue, others, notStore>>

\* the browser serves the storage.sync.get of call c
storageRead(c) ==
    /\ calls[c].pc = "get"
    /\ calls' = [calls EXCEPT ![c].pc = "got", ![c].result = store]
    /\ UNCHANGED <<store, cache, changed, setQueue, others, notStore>>

\* the get of call c resolves: getSettings() caches the object and returns it,
\* updateSettings merges the updates and requests storage.sync.set
storageGot(c) ==
    /\ calls[c].pc = "got"
    /\ LET settings == withDefaults(calls[c].result) IN
       /\ cache' = <<settings>>
       /\ calls' = [calls EXCEPT ![c].pc = "set",
                                 ![c].newSettings = <<merge(settings, calls[c].updates)>>]
    /\ UNCHANGED <<store, changed, setQueue, others, notStore>>

\* the browser performs the storage.sync.set of call c; onChanged is fired in
\* every context when the stored value changes
storageWrite(c) ==
    /\ calls[c].pc = "set"
    /\ store' = calls[c].newSettings
    /\ changed' = IF store # calls[c].newSettings THEN changed + 1 ELSE changed
    /\ setQueue' = Append(setQueue, c)
    /\ calls' = [calls EXCEPT ![c].pc = "written"]
    /\ UNCHANGED <<cache, others, notStore>>

\* the set of call c resolves (in the order of the writes): updateSettings
\* caches its newSettings and sends SETTINGS_UPDATED
setResolved(c) ==
    /\ calls[c].pc = "written"
    /\ setQueue # <<>> /\ Head(setQueue) = c
    /\ cache' = calls[c].newSettings
    /\ setQueue' = Tail(setQueue)
    /\ calls' = [calls EXCEPT ![c].pc = "done"]
    /\ UNCHANGED <<store, changed, others, notStore>>

\* another context (options page, another device through sync) writes settings
otherContextWrites(settings) ==
    /\ others < MaxOthers
    /\ store # <<settings>>
    /\ store' = <<settings>>
    /\ changed' = changed + 1
    /\ others' = others + 1
    /\ UNCHANGED <<cache, calls, setQueue, notStore>>

\* the listener of setupStorageListener(): this.cache.delete(key) for the
\* changed key
onChanged ==
    /\ changed > 0
    /\ changed' = changed - 1
    /\ cache' = <<>>
    /\ UNCHANGED <<store, calls, setQueue, others, notStore>>

StoreNext ==
    \/ \E c \in 1..MaxCalls, updates \in Updates : updateSettings(c, updates)
    \/ \E c \in 1..MaxCalls : storageRead(c)
    \/ \E c \in 1..MaxCalls : storageGot(c)
    \/ \E c \in 1..MaxCalls : storageWrite(c)
    \/ \E c \in 1..MaxCalls : setResolved(c)
    \/ \E settings \in Settings : otherContextWrites(settings)
    \/ onChanged

SpecStore == Init /\ [][StoreNext]_vars

-----------------------------------------------------------------------------
(* Telemetry: trackEvent and sendTelemetryBatch *)

MaxEvents == 3

EventTypes == {"usage", "error"}

\* everything but the telemetry
notTelemetry == <<mgrVars, otVars, ids, peerVars, storeVars>>

\* sendTelemetryBatch() up to its await: the queue becomes the batch of a
\* pending fetch; nothing happens on an empty queue
takeBatch(queue) ==
    IF queue = <<>>
    THEN /\ telemetryQueue' = queue
         /\ UNCHANGED inFlight
    ELSE /\ telemetryQueue' = <<>>
         /\ inFlight' = inFlight \cup {queue}

\* trackEvent(type, data): a no-op when the policy disables telemetry;
\* 'error' and 'security' events are sent at once
trackEvent(type, enableTelemetry) ==
    /\ accepted < MaxEvents
    /\ IF ~enableTelemetry
       THEN UNCHANGED telVars
       ELSE /\ accepted' = accepted + 1
            /\ IF type = "error"
               THEN takeBatch(Append(telemetryQueue, accepted + 1))
               ELSE /\ telemetryQueue' = Append(telemetryQueue, accepted + 1)
                    /\ UNCHANGED inFlight
            /\ UNCHANGED acked
    /\ UNCHANGED notTelemetry

\* the setInterval callback and the beforeunload handler of setupTelemetry()
sendTelemetryBatch ==
    /\ telemetryQueue # <<>>
    /\ takeBatch(telemetryQueue)
    /\ UNCHANGED <<acked, accepted, notTelemetry>>

\* the fetch of a batch resolves: with response.ok the batch is done,
\* otherwise it is put back in front of the queue
fetchResolved(batch, ok) ==
    /\ batch \in inFlight
    /\ inFlight' = inFlight \ {batch}
    /\ IF ok
       THEN acked' = acked \cup {batch} /\ UNCHANGED telemetryQueue
       ELSE telemetryQueue' = batch \o telemetryQueue /\ UNCHANGED acked
    /\ UNCHANGED <<accepted, notTelemetry>>

\* the fetch of a batch (or getAuthToken before it) rejects: the catch block
\* logs the error
fetchRejected(batch) ==
    /\ batch \in inFlight
    /\ inFlight' = inFlight \ {batch}
    /\ UNCHANGED <<telemetryQueue, acked, accepted, notTelemetry>>

TelemetryNext ==
    \/ \E type \in EventTypes, enableTelemetry \in BOOLEAN :
          trackEvent(type, enableTelemetry)
    \/ sendTelemetryBatch
    \/ \E batch \in inFlight, ok \in BOOLEAN : fetchResolved(batch, ok)
    \/ \E batch \in inFlight : fetchRejected(batch)

SpecTelemetry == Init /\ [][TelemetryNext]_vars

-----------------------------------------------------------------------------
(* Properties of the connection life cycle, checked under SpecConn *)

\* the last operation was the unclean close of a socket that never opened:
\* a failed connection attempt, the closeRun-th of its run
FailedAttempt == last.op = "close" /\ last.info.failed

\* C9 as claimed: in a run of consecutive failed connection attempts, the 5th
\* and every later failure schedules no reconnect timer.
C9_NoRetryFromFifth ==
    (FailedAttempt /\ closeRun >= 5) => ~last.info.scheduled

\* C9 as amended: in a run of consecutive failed connection attempts, the 6th
\* and every later failure schedules no reconnect timer.
C9_NoRetryFromSixth ==
    (FailedAttempt /\ closeRun >= 6) => ~last.info.scheduled

C9_Witness == FailedAttempt /\ closeRun = 6 /\ ~last.info.scheduled /\ timers = <<>>

\* C10: what the consumer observes (events and getters) at a close that exhausts
\* the reconnect attempts differs from what it observes at a close that is retried.
C10_FailedIsDistinguishable ==
    \A a, b \in closeSeen :
        (a.outcome = "exhausted" /\ b.outcome = "retry") => a.observed # b.observed

\* 2^n for the exponents of the backoff
Pow2(n) == 2 ^ n

\* the last operation was an unclean close that scheduled a retry, the
\* retryRun-th of its run of consecutive unclean closes
RetryScheduled == last.op = "close" /\ last.info.scheduled

\* C11: in a run of consecutive unclean closes the k-th scheduled retry waits
\* min(1000 * 2^(k-1), 30000) ms: 1 s, 2 s, 4 s, ... capped at 30 s.  (SpecConn)
C11_BackoffFromOneSecond ==
    RetryScheduled =>
        last.info.delay = <<Min(1000 * Pow2(retryRun - 1), 30000)>>

\* disconnect() (or destroy()) has returned and the consumer has not called
\* connect() since: only disconnect() resets this.websocket to null
Disconnected == websocket = 0 /\ sockets # <<>>

\* C14: after disconnect() or destroy(), and until the consumer calls connect()
\* again, no reconnect timer is pending and no heartbeat interval is active.
\* (SpecConn)
C14_NoTimerSurvives ==
    Disconnected => (timers = <<>> /\ intervals = {})

-----------------------------------------------------------------------------
(* Properties of the outbound operations, checked under SpecOut *)

\* the operations that hand a frame to send()
OutboundOps == {"setCurrentUser", "createRoom", "joinRoom", "leaveRoom",
                "sendMessage", "sendReaction", "sendEdit", "updateUserCursor",
                "updateUserSelection", "heartbeat"}

C13_QueuedIsDelivered ==
    /\ \A k \in 1..MaxMessages :
          (k \in 1..Len(messages) /\ k \notin delivered /\ SocketIsOpen)
              ~> (k \in delivered)
    /\ \A k \in 1..MaxRoomEdits :
          (k \in 1..Len(edits) /\ k \notin wire /\ SocketIsOpen)
              ~> (k \in wire)

-----------------------------------------------------------------------------
(* Properties of the room session, checked under SpecRoom *)

\* C17: when the room_joined that answers joinRoom(r) has been handled, the
\* current room is the received room and the presence table holds exactly
\* the users of its member list, whatever the manager held before.
C17_PresenceIsMemberList ==
    (last.op = "room_joined" /\ joining = <<last.arg[1].id, "answered">>)
        => /\ currentRoom = <<last.arg[1]>>
           /\ users = last.arg[1].users

\* C18: leaveRoom() called with a current user and a current room leaves the
\* current room null and the presence table empty at once, and has sent one
\* room_leave frame for that room if the socket is OPEN and nothing otherwise.
C18_LeaveRoomIsOptimistic ==
    (last.op = "leaveRoom" /\ currentUser # <<>> /\ last.info.left # <<>>)
        => /\ currentRoom = <<>>
           /\ users = {}
           /\ last.sent = IF SocketIsOpen
                          THEN <<[type |-> "room_leave",
                                  roomId |-> last.info.left[1].id,
                                  userId |-> currentUser[1]]>>
                          ELSE <<>>

\* a room with members was left while the connection was down
C18_Witness ==
    /\ last.op = "leaveRoom" /\ currentUser # <<>> /\ last.info.left # <<>>
    /\ ~SocketIsOpen /\ sockets # <<>>
    /\ currentRoom = <<>> /\ users = {}

\* the step is a call of sendMessage
SendMessageStep ==
    last'.op = "sendMessage" /\ (last' # last \/ messages' # messages)

\* the frame that carries a chat message
MessageFrame(message) == <<[type |-> "message", message |-> message]>>

\* sendMessage changed no state, transmitted nothing and emitted nothing
SendMessageRejected ==
    /\ last'.sent = <<>> /\ last'.emitted = <<>>
    /\ UNCHANGED <<websocket, currentUser, userFields, currentRoom, users,
                   messages, edits, webrtcConnections, eventListeners,
                   reconnectAttempts, heartbeatInterval, sockets, timers,
                   intervals, now>>

\* sendMessage appended exactly one message at the tail of the history
SendMessageAppended ==
    /\ Len(messages') = Len(messages) + 1
    /\ IsPrefix(messages, messages')
    /\ messages'[Len(messages')].content = last'.arg[1]

C20_CreatedRoomIsCurrent ==
    (last.op = "createRoom" /\ currentUser # <<>>)
        => /\ last.info.returned # <<>>
           /\ currentRoom = last.info.returned

-----------------------------------------------------------------------------
(* Properties of the event system, checked under SpecBus *)

\* the last operation emitted an event to the listeners subscribed to it
HasEmitted ==
    \/ last.op \in {"message", "user_joined", "user_left"}
    \/ last.op = "sendMessage" /\ ~last.info.early

\* the ids 1..n of the listeners subscribed when the emit started
AllOf(subscribed) == [k \in 1..Len(subscribed) |-> k]

\* C15: when a callback throws during emit and no callback unsubscribes, every
\* listener of the event is still invoked, and the exception does not reach
\* the caller of emit.
C15_HandlerIsolation ==
    (/\ HasEmitted
     /\ last.info.bus.threw
     /\ \A k \in 1..Len(last.info.bus.subscribed) :
           last.info.bus.subscribed[k] \in {"log", "boom"})
        => /\ last.info.bus.invoked = AllOf(last.info.bus.subscribed)
           /\ ~last.info.bus.propagated
           /\ last.info.threw = "none"

\* C16: when no callback throws, the listeners are invoked in subscription
\* order, each at most once, and a listener that is still subscribed when the
\* emit ends was invoked, also when callbacks call off() during the emit.
C16_NoListenerSkipped ==
    (HasEmitted /\ ~last.info.bus.threw)
        => LET invoked == last.info.bus.invoked
               kept == last.info.bus.kept
           IN /\ \A i, j \in 1..Len(invoked) : i < j => invoked[i] < invoked[j]
              /\ \A k \in 1..Len(kept) :
                    \E i \in 1..Len(invoked) : invoked[i] = kept[k]

-----------------------------------------------------------------------------
(* Properties of the edit log *)

EditOps == {"sendEdit", "edit"}

\* C3: a malformed edit handed to sendEdit (with a user and a room set), or
\* arriving as an inbound 'edit' message, fails with a ValidationError, leaves
\* the log as it was, and nothing is transmitted or emitted.  (SpecLog)
C3_MalformedRejected ==
    (last.op \in EditOps /\ ~last.info.early /\ last.info.malformed)
        => /\ last.info.threw = "ValidationError"
           /\ ~last.info.appended
           /\ last.sent = <<>>
           /\ last.emitted = <<>>

\* C4 as claimed: whatever the operation, the log before it is a prefix of the
\* log after it.  (Spec)
C4_AppendOnly == [][IsPrefix(edits, edits')]_vars

\* C4 as amended: every operation other than destroy() leaves the log before it
\* a prefix of the log after it; destroy() empties the log.  (Spec)
C4_AppendOnlyUntilDestroy ==
    [][IF last'.op = "destroy"
       THEN edits' = <<>>
       ELSE IsPrefix(edits, edits')]_vars

\* a room was left, or the connection was dropped, with entries in the log, and
\* the entries are still there
C4_Witness ==
    /\ last.op \in {"leaveRoom", "disconnect", "close"}
    /\ currentUser # <<>>
    /\ Len(edits) = MaxSessionEdits

\* C5: provided no malformed edit was handed to the manager, every entry of the
\* log has a position >= 0.  (SpecLog)
C5_PositionsNonNegative ==
    ~tainted => \A k \in 1..Len(edits) : edits[k].position >= 0

\* C6: handling an inbound edit never shifts it on account of a log entry its
\* author had already received when creating it.  (SpecLog)
C6_ObservedNotRetransformed ==
    (last.op = "edit" /\ ~tainted) => last.info.shiftedBy \cap last.info.observed = {}

-----------------------------------------------------------------------------
(* Properties of inbound frames the manager does not know *)

\* the step handles an inbound message of a type outside the dispatch table
UnknownStep == last'.op = "unknown" /\ last' # last

\* C21: an inbound message of an unknown type changes neither the current
\* room, the presence table, the message history, the edit log nor the peer
\* connections, emits no event and raises nothing, and the socket keeps
\* delivering inbound messages afterwards.  (SpecLog)
C21_UnknownIsDropped ==
    [][UnknownStep =>
         /\ UNCHANGED <<currentRoom, users, messages, edits, webrtcConnections>>
         /\ last'.emitted = <<>> /\ last'.sent = <<>>
         /\ last'.info.threw = "none"
         /\ CanReceive']_vars

\* a message of an unknown type arrived in a session with a room, a presence
\* table and a log that are not empty
C21_Witness ==
    /\ last.op = "unknown"
    /\ currentRoom # <<>> /\ users # {} /\ edits # <<>>

-----------------------------------------------------------------------------
(* Properties of the ids, checked under SpecId *)

\* the lexicographic order of two ids: the strings are compared from the
\* left, the random part first and the clock after it
lexLess(a, b) == a[1] < b[1] \/ (a[1] = b[1] /\ a[2] < b[2])

\* C22: the ids one manager has produced are pairwise distinct, and an id
\* created later is lexicographically greater than one created earlier.
C22_IdsDistinctAndIncreasing ==
    \A i, j \in 1..Len(ids) :
        i < j => (ids[i] # ids[j] /\ lexLess(ids[i], ids[j]))

-----------------------------------------------------------------------------
(* Properties of echoed edits, checked under SpecEcho *)

\* a step of the inbound 'edit' case on a copy of one of the local user's edits
EchoStep ==
    /\ last'.op = "edit"
    /\ last'.arg[1].userId = LocalUser
    /\ last' # last \/ edits' # edits

\* C23: an echoed copy of an edit made by sendEdit is appended again, so that
\* the log holds two entries with the id of that edit, and the 'edit' event
\* is emitted for it a second time (sendEdit emitted it the first time)
C23_EchoIsAppendedAgain ==
    [][/\ EchoStep =>
            LET echoed == last'.arg[1] IN
            /\ Len(edits') = Len(edits) + 1
            /\ edits'[Len(edits')].id = echoed.id
            /\ \E k \in 1..Len(edits) :
                  edits'[k] = edits[k] /\ edits[k].id = echoed.id
            /\ last'.emitted = <<emit("edit", edits'[Len(edits')])>>
       /\ (last'.op = "sendEdit" /\ last'.info.appended /\ edits' # edits) =>
            last'.emitted = <<emit("edit", edits'[Len(edits')])>>]_vars

C23_Witness ==
    /\ last.op = "edit"
    /\ last.arg[1].userId = LocalUser
    /\ \E j, k \in 1..Len(edits) :
          j < k /\ edits[j].id = edits[k].id /\ edits[j].userId = LocalUser
                /\ edits[k].userId = LocalUser /\ k = Len(edits)
                /\ edits[j].position # edits[k].position

-----------------------------------------------------------------------------
(* Reconnecting after connections that opened, checked under SpecConn *)

\* the last operation was the unclean close of a socket that had opened
DroppedAfterOpen == last.op = "close" /\ ~last.arg[2] /\ ~last.info.failed

\* socket i opens in this step
Opens(i) == sockets[i].readyState = "CONNECTING" /\ sockets'[i].readyState = "OPEN"

\* socket i, which had opened, is closed uncleanly in this step
Drops(i) ==
    /\ sockets[i].readyState # "CLOSED" /\ sockets'[i].readyState = "CLOSED"
    /\ sockets[i].established
    /\ last'.op = "close" /\ ~last'.arg[2]

\* C25: every open resets the count of attempts to 0, and the unclean close of
\* a connection that finds the count at 0 schedules a reconnect with the delay
\* of the first step: connections that open and drop are retried without bound
C25_OpenResetsTheLimit ==
    [][\A i \in 1..Len(sockets) :
          /\ Opens(i) => reconnectAttempts' = 0
          /\ (Drops(i) /\ reconnectAttempts = 0) =>
                (last'.info.scheduled /\ last'.info.delay = <<reconnectDelay(1)>>)]_vars

\* more reconnects than maxReconnectAttempts, each opened and dropped
C25_Witness ==
    /\ DroppedAfterOpen
    /\ last.info.scheduled
    /\ last.arg[1] = Len(sockets)
    /\ Len(sockets) > maxReconnectAttempts + 1
    /\ \A i \in 1..Len(sockets) : sockets[i].established

-----------------------------------------------------------------------------
(* Properties of overlapping sockets, checked under SpecRelink *)

\* C24: a heartbeat timer is active whenever the current socket is open, and
\* at most one heartbeat timer exists
C24_OneHeartbeatWhileOpen ==
    /\ SocketIsOpen => (heartbeatInterval # 0 /\ heartbeatInterval \in intervals)
    /\ Cardinality(intervals) <= 1

\* the sockets whose onopen, onmessage and onclose still reach the manager
Attached == { i \in 1..Len(sockets) : sockets[i].readyState \in {"CONNECTING", "OPEN"} }

\* C26: at most one socket carrying the manager's handlers is connecting or
\* open at any time
C26_OneLiveSocket == Cardinality(Attached) <= 1

-----------------------------------------------------------------------------
(* Properties of the peer-connection map, checked under SpecPeer *)

\* C27: the map holds at most one entry per peer id, and the entry of a peer
\* leaves the map only by the close of the data channel it holds or by
\* disconnect(): the close of a channel that was replaced deletes nothing
C27_EntryOutlivesReplacedChannel ==
    /\ [](\A e, f \in webrtcConnections : e.peerId = f.peerId => e = f)
    /\ [][\A e \in webrtcConnections :
             (\A f \in webrtcConnections' : f.peerId # e.peerId) =>
                \/ last'.op \in {"disconnect", "destroy"}
                \/ last'.op = "channelClose" /\ last'.arg[1] = e.channel]_vars

-----------------------------------------------------------------------------
(* Properties of a session that changes rooms, checked under SpecMove *)

\* C28: leaveRoom() leaves the edit log and the message history as they are,
\* an inbound edit is transformed against the whole log whichever room its
\* entries came from, and only destroy() makes either list shorter
C28_LeaveRoomKeepsHistory ==
    [][/\ (last'.op = "leaveRoom" /\ last' # last) => UNCHANGED <<edits, messages>>
       /\ (last'.op = "edit" /\ edits' # edits) =>
             edits' = Append(edits, reduceTransform(last'.arg[1], edits))
       /\ (Len(edits') < Len(edits) \/ Len(messages') < Len(messages)) =>
             last'.op = "destroy"]_vars

\* in r2 after leaving r1 (u2 is gone from the presence list): an edit of u3
\* was shifted by the edit u2 made in r1, and the chat of r1 is still there
C28_Witness ==
    /\ currentRoom # <<>> /\ currentRoom[1].id = "r2"
    /\ users = {"u1", "u3"}
    /\ last.op = "edit" /\ last.arg[1].userId = "u3"
    /\ 1 \in last.info.shiftedBy
    /\ Len(edits) = 2 /\ edits[1].userId = "u2"
    /\ messages # <<>> /\ messages[1].userId = "u2"

-----------------------------------------------------------------------------
(* Properties of the settings cache, checked under SpecStore *)

\* every updateSettings call has returned and every onChanged event was delivered
StoreQuiet ==
    /\ \A c \in 1..MaxCalls : calls[c].pc \in {"idle", "done"}
    /\ changed = 0

\* what getSettings() returns without touching the storage, if anything
Stale == cache # <<>> /\ cache[1] # withDefaults(store)

\* C29: once all calls have completed, the cached settings equal what
\* chrome.storage.sync holds, so getSettings() never returns a stale object
C29_CacheIsCoherent == StoreQuiet => ~Stale

-----------------------------------------------------------------------------
(* Properties of the telemetry queue, checked under SpecTelemetry *)

\* the events of a sequence of event ids
Range(seq) == { seq[k] : k \in 1..Len(seq) }

\* C30: every accepted event is in the queue, in a pending batch or in an
\* acknowledged batch; no event is in two acknowledged batches; and a send
\* that fails puts its batch back in front of the queue
C30_NoEventLost ==
    /\ [](\A e \in 1..accepted :
            \/ e \in Range(telemetryQueue)
            \/ \E batch \in inFlight \cup acked : e \in Range(batch))
    /\ [](\A a, b \in acked : a # b => Range(a) \cap Range(b) = {})
    /\ [][\A batch \in inFlight :
             (batch \notin inFlight' /\ batch \notin acked') =>
                telemetryQueue' = batch \o telemetryQueue]_vars

====
